---- MODULE Spec2Model ----
(***************************************************************************)
(* Model of the Wiki cog (src/cogs/wiki.py): the title cache              *)
(* (all_titles, all_titles_stamp), its refresh over the paginated         *)
(* namespace listings, the title search command that ranks the cached     *)
(* titles and resolves the matches to URLs, and the full-text search      *)
(* command.  Spec interleaves invocations of the title search, SpecAll    *)
(* adds invocations of the full-text search; SpecRank, SpecRead,          *)
(* SpecSearch and SpecSnip run one step of the cog on drawn inputs.       *)
(*                                                                         *)
(* The cog runs on one asyncio event loop: the code between two awaits    *)
(* is one atomic step, and each action below is one such step of one      *)
(* command invocation.  Strings are tuples of code points; a Python dict  *)
(* is the sequence of its <<key, value>> items in insertion order.        *)
(***************************************************************************)
EXTENDS Integers, Sequences, FiniteSets, TLC

(* ------------------------------ bounds -------------------------------- *)

\* concurrent invocations of the wiki command
NumTasks == 2
\* titles the remote store returns per listing request
PageSize == 2
\* advances of the monotonic clock
MaxTicks == 2

(* ------------------------- program constants -------------------------- *)

\* wiki.py:85  cache time limit in seconds
TTL == 900
\* wiki.py:123  score_cutoff
ScoreCutoff == 75
\* wiki.py:124  limit
ResultLimit == 10
\* wiki.py:90  namespaces = [0, 14]
Namespaces == <<0, 14>>
\* wiki.py:72  'TEMP'
TEMP == <<84, 69, 77, 80>>
\* wiki.py:57  next_query_start = ''
EmptyStr == <<>>

TickLen == TTL \div 2
Tasks == 1..NumTasks

(* ------------------------------ strings ------------------------------- *)

\* str.startswith
StartsWith(s, prefix) ==
    /\ Len(s) >= Len(prefix)
    /\ \A i \in 1..Len(prefix) : s[i] = prefix[i]

\* Python's < on str: lexicographic by code point
StrLess(a, b) ==
    \E i \in 1..(Len(a) + 1) :
        /\ i <= Len(b)
        /\ \A j \in 1..(i - 1) : a[j] = b[j]
        /\ (i = Len(a) + 1 \/ a[i] < b[i])

Min(a, b) == IF a < b THEN a ELSE b

(* ------------------------------- dicts -------------------------------- *)

DictKeys(d) == [i \in 1..Len(d) |-> d[i][1]]

DictHas(d, k) == \E i \in 1..Len(d) : d[i][1] = k

\* d[k]
DictGet(d, k) == d[CHOOSE i \in 1..Len(d) : d[i][1] = k][2]

\* d[k] = v : an existing key keeps its place, a new key goes last
DictSet(d, k, v) ==
    IF DictHas(d, k)
    THEN [i \in 1..Len(d) |-> IF d[i][1] = k THEN <<k, v>> ELSE d[i]]
    ELSE Append(d, <<k, v>>)

RECURSIVE DictUpdate(_, _)
\* d.update(e)
DictUpdate(d, e) ==
    IF e = <<>> THEN d
    ELSE DictUpdate(DictSet(d, e[1][1], e[1][2]), Tail(e))

(* --------------------------- the remote store ------------------------- *)

tA == <<65>>
tB == <<66>>
tTEM == <<84, 69, 77>>
tTEMP1 == <<84, 69, 77, 80, 49>>
tCategoryA == <<67, 97, 116, 101, 103, 111, 114, 121, 58, 65>>

Page(sortkey, title, pageid) ==
    [sortkey |-> sortkey, title |-> title, pageid |-> pageid]

\* The successive contents of the wiki: per namespace, its non-redirect
\* pages in the order the allpages listing serves them (by title).
WikiHistory == <<
    [ns0  |-> <<Page(tTEMP1, tTEMP1, 9)>>,
     ns14 |-> <<>>],
    [ns0  |-> <<Page(tA, tA, 1), Page(tB, tB, 2), Page(tTEM, tTEM, 3),
                Page(tTEMP1, tTEMP1, 9)>>,
     ns14 |-> <<Page(tA, tCategoryA, 5)>>],
    [ns0  |-> <<Page(tA, tA, 4), Page(tTEM, tTEM, 3), Page(TEMP, TEMP, 8)>>,
     ns14 |-> <<Page(tA, tCategoryA, 5)>>]
  >>

Versions == 1..Len(WikiHistory)

Listing(ver, namespace) ==
    IF namespace = 0 THEN WikiHistory[ver].ns0 ELSE WikiHistory[ver].ns14

\* The reply to a list=allpages query: the pages of the namespace from
\* apfrom on, at most PageSize of them, and a continuation when more follow.
PageFrom(listing, apfrom) ==
    LET rest == SelectSeq(listing, LAMBDA p : ~StrLess(p.sortkey, apfrom))
        n == Min(PageSize, Len(rest))
    IN  [allpages    |-> [i \in 1..n |->
                            [title |-> rest[i].title, pageid |-> rest[i].pageid]],
         hasContinue |-> Len(rest) > PageSize,
         apcontinue  |-> IF Len(rest) > PageSize
                         THEN rest[PageSize + 1].sortkey ELSE EmptyStr]

\* the reply for a namespace of the wiki as it is in version ver
ListResponse(ver, namespace, apfrom) ==
    PageFrom(Listing(ver, namespace), apfrom)

AllPages(ver) ==
    {WikiHistory[ver].ns0[i] : i \in 1..Len(WikiHistory[ver].ns0)}
        \cup {WikiHistory[ver].ns14[i] : i \in 1..Len(WikiHistory[ver].ns14)}

\* The reply to a prop=info&inprop=url query: response['query']['pages'],
\* keyed by the page id as a string; a page that no longer exists has no
\* 'fullurl'.
InfoResponse(ver, str_pageids) ==
    LET asked == {str_pageids[i] : i \in 1..Len(str_pageids)}
        live == {p \in AllPages(ver) : ToString(p.pageid) \in asked}
    IN  [k \in {ToString(p.pageid) : p \in live} |->
            [fullurl |-> (CHOOSE p \in live : ToString(p.pageid) = k).title]]

\* The similarity the scorer gives a title for a query (0..100).
WRatio(query, choice) ==
    IF query = "tem"
    THEN CASE choice = tA         -> 80
           [] choice = tB         -> 60
           [] choice = tTEM       -> 90
           [] choice = tCategoryA -> 90
           [] OTHER               -> 0
    ELSE 0

Queries == {"tem"}

(* ------------------------------ ranking ------------------------------- *)

\* sorted(..., key=score, reverse=True) is stable: an entry goes after
\* every entry whose score is at least its own.
InsertDesc(sorted, x) ==
    LET k == Cardinality({i \in 1..Len(sorted) : sorted[i][2] >= x[2]})
    IN  SubSeq(sorted, 1, k) \o <<x>> \o SubSeq(sorted, k + 1, Len(sorted))

RECURSIVE SortDesc(_)
SortDesc(s) ==
    IF s = <<>> THEN <<>>
    ELSE InsertDesc(SortDesc(SubSeq(s, 1, Len(s) - 1)), s[Len(s)])

\* extractWithoutOrder: the (choice, score) pairs that reach the cutoff, in
\* the order the choices are iterated
ScoredChoices(score, choices, score_cutoff) ==
    SelectSeq([i \in 1..Len(choices) |-> <<choices[i], score[choices[i]]>>],
              LAMBDA r : r[2] >= score_cutoff)

\* as BestsBy, but the whole sorted list is returned whatever the limit
BestsBy_NoLimit(score, choices, score_cutoff, limit) ==
    SortDesc(ScoredChoices(score, choices, score_cutoff))

\* heapq.nlargest(limit, best_list, key=score)
BestsBy(score, choices, score_cutoff, limit) ==
    LET best == SortDesc(ScoredChoices(score, choices, score_cutoff))
    IN  SubSeq(best, 1, Min(limit, Len(best)))

\* process.extractBests(query, choices, score_cutoff=, limit=)
extractBests(query, choices, score_cutoff, limit) ==
    BestsBy([c \in {choices[i] : i \in 1..Len(choices)} |-> WRatio(query, c)],
            choices, score_cutoff, limit)

(* --------------------------- full-text search ------------------------- *)

\* wiki.py:174  '<span class="searchmatch">'
OpenTag == <<60, 115, 112, 97, 110, 32, 99, 108, 97, 115, 115, 61, 34, 115,
             101, 97, 114, 99, 104, 109, 97, 116, 99, 104, 34, 62>>
\* wiki.py:175  '</span>'
CloseTag == <<60, 47, 115, 112, 97, 110, 62>>
\* wiki.py:174-175  '**'
Bold == <<42, 42>>

RECURSIVE Replace(_, _, _)
\* str.replace(old, new), old not empty: the occurrences of old are taken
\* from the left, without overlap
Replace(s, old, new) ==
    IF Len(s) < Len(old) THEN s
    ELSE IF SubSeq(s, 1, Len(old)) = old
         THEN new \o Replace(SubSeq(s, Len(old) + 1, Len(s)), old, new)
         ELSE <<s[1]>> \o Replace(Tail(s), old, new)

\* wiki.py:174-175  the snippet with both tags replaced by '**'
Markup(text) == Replace(Replace(text, OpenTag, Bold), CloseTag, Bold)

\* A JSON value as Python holds it: a str, a list of str, or None (null).
PyStr(v) == [type |-> "str", v |-> v]
PyList(v) == [type |-> "list", v |-> v]
PyNone == [type |-> "None", v |-> <<>>]

RECURSIVE Concat(_)
Concat(parts) == IF parts = <<>> THEN <<>> ELSE parts[1] \o Concat(Tail(parts))

\* ''.join(x): the exception it raises, or "none".  A str is an iterable of
\* its characters and a list of str an iterable of str; None is not
\* iterable.  No argument makes it raise ValueError.
JoinRaises(x) == IF x.type = "None" THEN "TypeError" ELSE "none"

\* ''.join(x) when it raises nothing
Join(x) == IF x.type = "str" THEN x.v ELSE Concat(x.v)

\* wiki.py:158-165  the response holds 'error': what the command ends with.
\* The try statement catches ValueError alone.
SearchError(error) ==
    IF "info" \notin DOMAIN error
    THEN [outcome |-> "search:KeyError", reply |-> <<>>]
    ELSE IF JoinRaises(error.info) = "ValueError"
         THEN [outcome |-> "search_error:no_message", reply |-> <<>>]
         ELSE IF JoinRaises(error.info) = "TypeError"
              THEN [outcome |-> "search:TypeError", reply |-> <<>>]
              ELSE [outcome |-> "search_error", reply |-> Join(error.info)]

\* wiki.py:170  [item['pageid'] for item in results]
SearchPageIds(res) == [i \in 1..Len(res) |-> res[i].pageid]

\* wiki.py:171-177  per result its title, its url and its marked up snippet
SearchReply(res, urls) ==
    [i \in 1..Min(Len(res), Len(urls)) |->
        <<res[i].title, urls[i], Markup(res[i].snippet)>>]

\* The snippet the search engine gives for a page: its title, highlighted.
SnippetOf(title) == OpenTag \o title \o CloseTag \o <<46>>

\* The reply to a list=search query that matches the pages A and TEM of
\* namespace 0.
HitsResponse(ver) ==
    LET hits == SelectSeq(WikiHistory[ver].ns0,
                          LAMBDA p : p.title \in {tA, tTEM})
    IN  [query |->
           [searchinfo |-> [totalhits |-> Len(hits)],
            search |-> [i \in 1..Len(hits) |->
                          [title |-> hits[i].title, pageid |-> hits[i].pageid,
                           snippet |-> SnippetOf(hits[i].title)]]]]

\* 'Invalid search'
tInvalid == <<73, 110, 118, 97, 108, 105, 100, 32, 115, 101, 97, 114, 99, 104>>

\* The replies that hold 'error': with its info string, without 'info', and
\* with an info that is not a string.
ErrorResponses ==
    {[error |-> [code |-> "srsearch", info |-> PyStr(tInvalid)]],
     [error |-> [code |-> "srsearch"]],
     [error |-> [code |-> "srsearch", info |-> PyList(<<tA, tB>>)]],
     [error |-> [code |-> "srsearch", info |-> PyNone]]}

SearchResponses(ver) == ErrorResponses \cup {HitsResponse(ver)}

(* ------------------------------- state -------------------------------- *)

VARIABLES
    all_titles,         \* self.all_titles
    all_titles_stamp,   \* self.all_titles_stamp
    now,                \* time.monotonic()
    wikiVer,            \* the content the remote store serves now
    pc,                 \* per invocation: the await it is suspended at
    query,              \* ' '.join(args)
    nsIdx,              \* position of the for loop over namespaces
    next_query_start,   \* read_titles: apfrom of the request in flight
    fresh_titles,       \* read_titles: titles of the namespace so far
    new_titles,         \* refresh_titles_cache: the mapping being built
    ranked,             \* the dict whose keys() went to the executor
    results,            \* extractBests' result
    pageids,            \* ids the results were mapped to
    url_query,          \* pageids_to_urls: the ids of the request in flight
    reply,              \* the (title, url) pairs sent
    outcome,            \* how the invocation ended
    \* history of the running invocations, not read by the program
    requests,           \* listing requests the invocation dispatched
    url_requests,       \* url requests the invocation dispatched
    listed,             \* the items the listing requests returned to it
    start_titles,       \* the index when the invocation's refresh began
    start_stamp,        \* the timestamp when it began
    populated,          \* a refresh has completed
    last_built,         \* the mapping the last complete refresh built
    last_listed,        \* the items the listings returned to that refresh
    rank,               \* the ranking step on its own: inputs and result
    snip,               \* the snippet markup step on its own
    reader,             \* one read_titles call on its own
    fts                 \* one wikisearch invocation on its own

cacheVars == <<all_titles, all_titles_stamp>>
envVars == <<now, wikiVer>>
refreshVars == <<nsIdx, next_query_start, fresh_titles, new_titles>>
searchVars == <<query, ranked, results, pageids, url_query>>
taskHist == <<requests, url_requests, listed, start_titles, start_stamp>>
globalHist == <<populated, last_built, last_listed>>
\* the parts of the cog that are also run on their own, on drawn inputs
stepVars == <<rank, snip, reader, fts>>
vars == <<cacheVars, envVars, pc, outcome, reply, refreshVars, searchVars,
          taskHist, globalHist, stepVars>>

InitWiki ==
    /\ all_titles = <<>>
    /\ all_titles_stamp = 0
    /\ now = 0
    /\ wikiVer = 1
    /\ pc = [t \in Tasks |-> "idle"]
    /\ query = [t \in Tasks |-> ""]
    /\ nsIdx = [t \in Tasks |-> 0]
    /\ next_query_start = [t \in Tasks |-> EmptyStr]
    /\ fresh_titles = [t \in Tasks |-> <<>>]
    /\ new_titles = [t \in Tasks |-> <<>>]
    /\ ranked = [t \in Tasks |-> <<>>]
    /\ results = [t \in Tasks |-> <<>>]
    /\ pageids = [t \in Tasks |-> <<>>]
    /\ url_query = [t \in Tasks |-> <<>>]
    /\ reply = [t \in Tasks |-> <<>>]
    /\ outcome = [t \in Tasks |-> "none"]
    /\ requests = [t \in Tasks |-> 0]
    /\ url_requests = [t \in Tasks |-> 0]
    /\ listed = [t \in Tasks |-> <<>>]
    /\ start_titles = [t \in Tasks |-> <<>>]
    /\ start_stamp = [t \in Tasks |-> 0]
    /\ populated = FALSE
    /\ last_built = <<>>
    /\ last_listed = <<>>

RankOff == [pc |-> "off"]

Init ==
    /\ InitWiki
    /\ rank = RankOff
    /\ snip = RankOff
    /\ reader = RankOff
    /\ fts = RankOff

(* ------------------------- refresh_titles_cache ----------------------- *)

\* as CacheFresh, but titles exactly 15 minutes old still count as fresh
CacheFresh_Inclusive == all_titles # <<>> /\ now - all_titles_stamp <= TTL

\* wiki.py:85  we have cached titles, and they're less than 15 minutes old
CacheFresh == all_titles # <<>> /\ now - all_titles_stamp < TTL

RECURSIVE AddItems_NoFilter(_, _)
\* as AddItems, but the temporary tables are kept
AddItems_NoFilter(fresh, items) ==
    IF items = <<>> THEN fresh
    ELSE AddItems_NoFilter(DictSet(fresh, items[1].title, items[1].pageid),
                           Tail(items))

RECURSIVE AddItems_ExactName(_, _)
\* as AddItems, but only the title 'TEMP' itself is left out
AddItems_ExactName(fresh, items) ==
    IF items = <<>> THEN fresh
    ELSE AddItems_ExactName(IF items[1].title # TEMP
                            THEN DictSet(fresh, items[1].title,
                                         items[1].pageid)
                            ELSE fresh,
                            Tail(items))

\* wiki.py:69-73  the items of one response go into fresh_titles, but for
\* the temporary tables
RECURSIVE AddItems(_, _)
AddItems(fresh, items) ==
    IF items = <<>> THEN fresh
    ELSE AddItems(IF ~StartsWith(items[1].title, TEMP)
                  THEN DictSet(fresh, items[1].title, items[1].pageid)
                  ELSE fresh,
                  Tail(items))

\* wiki.py:117-124  the executor gets the keys of the index as it is now
SubmitRanking(t, index) ==
    /\ ranked' = [ranked EXCEPT ![t] = index]
    /\ pc' = [pc EXCEPT ![t] = "ranking"]

\* wiki.py:110-111, 85-92, 53-66  the command starts: a fresh cache goes
\* straight to the ranking, otherwise the first listing request goes out
Invoke(t, q) ==
    /\ pc[t] = "idle"
    /\ query' = [query EXCEPT ![t] = q]
    /\ IF CacheFresh
       THEN /\ SubmitRanking(t, all_titles)
            /\ UNCHANGED <<refreshVars, taskHist>>
       ELSE /\ pc' = [pc EXCEPT ![t] = "fetching"]
            /\ new_titles' = [new_titles EXCEPT ![t] = <<>>]
            /\ fresh_titles' = [fresh_titles EXCEPT ![t] = <<>>]
            /\ nsIdx' = [nsIdx EXCEPT ![t] = 1]
            /\ next_query_start' = [next_query_start EXCEPT ![t] = EmptyStr]
            /\ requests' = [requests EXCEPT ![t] = 1]
            /\ start_titles' = [start_titles EXCEPT ![t] = all_titles]
            /\ start_stamp' = [start_stamp EXCEPT ![t] = all_titles_stamp]
            /\ UNCHANGED <<ranked, listed, url_requests>>
    /\ UNCHANGED <<cacheVars, envVars, outcome, reply, results, pageids,
                   url_query, globalHist, stepVars>>

\* wiki.py:74-75, 58-66  the response carries a continuation: ask for the
\* next batch
NextBatch(t, fresh, apcontinue) ==
    /\ fresh_titles' = [fresh_titles EXCEPT ![t] = fresh]
    /\ next_query_start' = [next_query_start EXCEPT ![t] = apcontinue]
    /\ requests' = [requests EXCEPT ![t] = @ + 1]
    /\ UNCHANGED <<cacheVars, pc, nsIdx, new_titles, ranked, start_titles,
                   start_stamp, globalHist>>

\* as NextNamespace, but the mapping is written into self.all_titles
\* namespace by namespace
NextNamespace_InPlace(t, merged) ==
    /\ new_titles' = [new_titles EXCEPT ![t] = merged]
    /\ all_titles' = merged
    /\ nsIdx' = [nsIdx EXCEPT ![t] = @ + 1]
    /\ fresh_titles' = [fresh_titles EXCEPT ![t] = <<>>]
    /\ next_query_start' = [next_query_start EXCEPT ![t] = EmptyStr]
    /\ requests' = [requests EXCEPT ![t] = @ + 1]
    /\ UNCHANGED <<all_titles_stamp, pc, ranked, start_titles, start_stamp,
                   globalHist>>

\* wiki.py:76-78, 91-92, 53-66  the namespace is read: merge it and start
\* on the next namespace
NextNamespace(t, merged) ==
    /\ new_titles' = [new_titles EXCEPT ![t] = merged]
    /\ nsIdx' = [nsIdx EXCEPT ![t] = @ + 1]
    /\ fresh_titles' = [fresh_titles EXCEPT ![t] = <<>>]
    /\ next_query_start' = [next_query_start EXCEPT ![t] = EmptyStr]
    /\ requests' = [requests EXCEPT ![t] = @ + 1]
    /\ UNCHANGED <<cacheVars, pc, ranked, start_titles, start_stamp,
                   globalHist>>

\* as Publish, but self.all_titles_stamp is left as it is
Publish_NoStamp(t, merged) ==
    /\ all_titles' = merged
    /\ all_titles_stamp' = all_titles_stamp
    /\ SubmitRanking(t, merged)
    /\ new_titles' = [new_titles EXCEPT ![t] = <<>>]
    /\ fresh_titles' = [fresh_titles EXCEPT ![t] = <<>>]
    /\ nsIdx' = [nsIdx EXCEPT ![t] = 0]
    /\ start_titles' = [start_titles EXCEPT ![t] = <<>>]
    /\ start_stamp' = [start_stamp EXCEPT ![t] = 0]
    /\ populated' = TRUE
    /\ last_built' = merged
    /\ last_listed' = listed'[t]
    /\ UNCHANGED <<next_query_start, requests>>

\* wiki.py:93-94, 112-124  the last namespace is read: publish the mapping
\* with its timestamp, and go on to rank the new index
Publish(t, merged) ==
    /\ all_titles' = merged
    /\ all_titles_stamp' = now
    /\ SubmitRanking(t, merged)
    /\ new_titles' = [new_titles EXCEPT ![t] = <<>>]
    /\ fresh_titles' = [fresh_titles EXCEPT ![t] = <<>>]
    /\ nsIdx' = [nsIdx EXCEPT ![t] = 0]
    /\ start_titles' = [start_titles EXCEPT ![t] = <<>>]
    /\ start_stamp' = [start_stamp EXCEPT ![t] = 0]
    /\ populated' = TRUE
    /\ last_built' = merged
    /\ last_listed' = listed'[t]
    /\ UNCHANGED <<next_query_start, requests>>

\* wiki.py:67-78, 91-94  a listing response arrives
RecvPage(t) ==
    /\ pc[t] = "fetching"
    /\ LET response == ListResponse(wikiVer, Namespaces[nsIdx[t]],
                                    next_query_start[t])
           fresh == AddItems(fresh_titles[t], response.allpages)
           merged == DictUpdate(new_titles[t], fresh)
       IN  /\ listed' = [listed EXCEPT ![t] = @ \o response.allpages]
           /\ IF response.hasContinue
              THEN NextBatch(t, fresh, response.apcontinue)
              ELSE IF nsIdx[t] < Len(Namespaces)
                   THEN NextNamespace(t, merged)
                   ELSE Publish(t, merged)
    /\ UNCHANGED <<envVars, outcome, reply, query, results, pageids,
                   url_query, url_requests, stepVars>>

\* The invocation ends: its locals are gone.
Finish(t, how) ==
    /\ pc' = [pc EXCEPT ![t] = "done"]
    /\ outcome' = [outcome EXCEPT ![t] = how]
    /\ new_titles' = [new_titles EXCEPT ![t] = <<>>]
    /\ fresh_titles' = [fresh_titles EXCEPT ![t] = <<>>]
    /\ nsIdx' = [nsIdx EXCEPT ![t] = 0]
    /\ next_query_start' = [next_query_start EXCEPT ![t] = EmptyStr]
    /\ query' = [query EXCEPT ![t] = ""]
    /\ ranked' = [ranked EXCEPT ![t] = <<>>]
    /\ results' = [results EXCEPT ![t] = <<>>]
    /\ pageids' = [pageids EXCEPT ![t] = <<>>]
    /\ url_query' = [url_query EXCEPT ![t] = <<>>]
    /\ requests' = [requests EXCEPT ![t] = 0]
    /\ url_requests' = [url_requests EXCEPT ![t] = 0]
    /\ listed' = [listed EXCEPT ![t] = <<>>]
    /\ start_titles' = [start_titles EXCEPT ![t] = <<>>]
    /\ start_stamp' = [start_stamp EXCEPT ![t] = 0]

\* wiki.py:66-68  the listing request fails, or its response lacks 'query'
\* or 'allpages': the exception leaves read_titles, refresh_titles_cache
\* and the command
FetchFail(t) ==
    /\ pc[t] = "fetching"
    /\ Finish(t, "refresh:error")
    /\ UNCHANGED <<cacheVars, envVars, reply, globalHist, stepVars>>

(* --------------------------------- wiki ------------------------------- *)

\* wiki.py:127  pageids = [self.all_titles[item[0]] for item in results]
PageIds(index, res) == [i \in 1..Len(res) |-> DictGet(index, res[i][1])]

\* wiki.py:37  str_pageids = [str(pageid) for pageid in pageids]
StrPageIds(ids) == [i \in 1..Len(ids) |-> ToString(ids[i])]

\* as RankDone, but an empty ranking goes on like any other
RankDone_NoEmptyCheck(t) ==
    /\ pc[t] = "ranking"
    /\ LET res == extractBests(query[t], DictKeys(ranked[t]),
                               ScoreCutoff, ResultLimit)
       IN  /\ results' = [results EXCEPT ![t] = res]
           /\ pageids' = [pageids EXCEPT ![t] = PageIds(all_titles, res)]
           /\ url_query' = [url_query EXCEPT
                               ![t] = StrPageIds(PageIds(all_titles, res))]
           /\ url_requests' = [url_requests EXCEPT ![t] = @ + 1]
           /\ pc' = [pc EXCEPT ![t] = "resolving"]
           /\ UNCHANGED <<outcome, refreshVars, query, ranked, requests,
                          listed, start_titles, start_stamp>>
    /\ UNCHANGED <<cacheVars, envVars, reply, globalHist, stepVars>>

\* wiki.py:125-128, 37-43  the executor returns the ranking: no result
\* ends the command, otherwise the titles are looked up in self.all_titles
\* as it is now and the url request goes out
RankDone(t) ==
    /\ pc[t] = "ranking"
    /\ LET res == extractBests(query[t], DictKeys(ranked[t]),
                               ScoreCutoff, ResultLimit)
       IN  IF Len(res) = 0
           THEN Finish(t, "no_matches")
           ELSE IF \E i \in 1..Len(res) : ~DictHas(all_titles, res[i][1])
                THEN Finish(t, "lookup:KeyError")
                ELSE /\ results' = [results EXCEPT ![t] = res]
                     /\ pageids' = [pageids EXCEPT
                                       ![t] = PageIds(all_titles, res)]
                     /\ url_query' = [url_query EXCEPT
                                         ![t] = StrPageIds(PageIds(all_titles, res))]
                     /\ url_requests' = [url_requests EXCEPT ![t] = @ + 1]
                     /\ pc' = [pc EXCEPT ![t] = "resolving"]
                     /\ UNCHANGED <<outcome, refreshVars, query, ranked,
                                    requests, listed, start_titles,
                                    start_stamp>>
    /\ UNCHANGED <<cacheVars, envVars, reply, globalHist, stepVars>>

\* as Urls, but in the order of the response's pages (by id), not of ids
Urls_ByPage(pages, ids) ==
    LET before(i) == Cardinality({j \in 1..Len(ids) : ids[j] < ids[i]})
    IN  [k \in 1..Len(ids) |->
            pages[ToString(ids[CHOOSE i \in 1..Len(ids) : before(i) = k - 1])]
                .fullurl]

\* wiki.py:45  urls = [response['query']['pages'][str(pageid)]['fullurl'] ...]
Urls(pages, ids) == [i \in 1..Len(ids) |-> pages[ToString(ids[i])].fullurl]

\* wiki.py:129-131  reply: the titles of the results zipped with the urls
Zip(res, urls) ==
    [i \in 1..Min(Len(res), Len(urls)) |-> <<res[i][1], urls[i]>>]

\* as RecvUrls, but an id the response has no entry for gets an empty url
RecvUrls_EmptyUrl(t) ==
    /\ pc[t] = "resolving"
    /\ LET pages == InfoResponse(wikiVer, url_query[t])
           urls == [i \in 1..Len(pageids[t]) |->
                       IF ToString(pageids[t][i]) \in DOMAIN pages
                       THEN pages[ToString(pageids[t][i])].fullurl
                       ELSE <<>>]
       IN  /\ reply' = [reply EXCEPT ![t] = Zip(results[t], urls)]
           /\ Finish(t, "results")
    /\ UNCHANGED <<cacheVars, envVars, globalHist, stepVars>>

\* wiki.py:44-46, 128-135  the url response arrives: a requested id without
\* its entry raises KeyError, otherwise the reply is built and sent
RecvUrls(t) ==
    /\ pc[t] = "resolving"
    /\ LET pages == InfoResponse(wikiVer, url_query[t])
       IN  IF \E i \in 1..Len(pageids[t]) :
                  ToString(pageids[t][i]) \notin DOMAIN pages
           THEN /\ Finish(t, "resolve:KeyError")
                /\ UNCHANGED reply
           ELSE /\ reply' = [reply EXCEPT
                                ![t] = Zip(results[t], Urls(pages, pageids[t]))]
                /\ Finish(t, "results")
    /\ UNCHANGED <<cacheVars, envVars, globalHist, stepVars>>

\* wiki.py:43-45  the url request fails, or its response lacks 'query' or
\* 'pages'
UrlFail(t) ==
    /\ pc[t] = "resolving"
    /\ Finish(t, "resolve:error")
    /\ UNCHANGED <<cacheVars, envVars, reply, globalHist, stepVars>>

\* The invocation is cancelled at the await it is suspended at:
\* CancelledError is raised there and leaves the command.
Cancel(t) ==
    /\ pc[t] \in {"fetching", "ranking", "resolving"}
    /\ Finish(t, CASE pc[t] = "fetching" -> "refresh:cancelled"
                   [] pc[t] = "ranking"  -> "rank:cancelled"
                   [] OTHER              -> "resolve:cancelled")
    /\ UNCHANGED <<cacheVars, envVars, reply, globalHist, stepVars>>

(* ----------------------------- environment ---------------------------- *)

\* time.monotonic() advances
Tick ==
    /\ now + TickLen <= MaxTicks * TickLen
    /\ now' = now + TickLen
    /\ UNCHANGED <<cacheVars, wikiVer, pc, outcome, reply, refreshVars,
                   searchVars, taskHist, globalHist, stepVars>>

\* the wiki is edited
RemoteEdit ==
    /\ wikiVer + 1 \in Versions
    /\ wikiVer' = wikiVer + 1
    /\ UNCHANGED <<cacheVars, now, pc, outcome, reply, refreshVars,
                   searchVars, taskHist, globalHist, stepVars>>

Next ==
    \/ \E t \in Tasks, q \in Queries : Invoke(t, q)
    \/ \E t \in Tasks : RecvPage(t)
    \/ \E t \in Tasks : FetchFail(t)
    \/ \E t \in Tasks : RankDone(t)
    \/ \E t \in Tasks : RecvUrls(t)
    \/ \E t \in Tasks : UrlFail(t)
    \/ \E t \in Tasks : Cancel(t)
    \/ Tick
    \/ RemoteEdit

Spec == Init /\ [][Next]_vars

(* ------------------------------ wikisearch ---------------------------- *)

\* A wikisearch invocation among the other invocations.  It reads and
\* writes nothing of the cog's state, so it is followed here through its
\* two awaits only and ends with one outcome, "search:ended"; what it
\* replies is followed on one invocation alone (FtsRecvSearch, FtsRecvUrls).

\* wiki.py:147-157  the command starts: its search request goes out
InvokeSearch(t, q) ==
    /\ pc[t] = "idle"
    /\ pc' = [pc EXCEPT ![t] = "searching"]
    /\ query' = [query EXCEPT ![t] = q]
    /\ UNCHANGED <<cacheVars, envVars, outcome, reply, refreshVars, ranked,
                   results, pageids, url_query, taskHist, globalHist,
                   stepVars>>

\* wiki.py:157-170, 37-43  the reply to the search request arrives: an error
\* or no hit ends the command, otherwise the url request goes out
RecvSearch(t) ==
    /\ pc[t] = "searching"
    /\ \E response \in SearchResponses(wikiVer) :
          IF "error" \in DOMAIN response
          THEN Finish(t, "search:ended")
          ELSE IF response.query.searchinfo.totalhits = 0
               THEN Finish(t, "search:ended")
               ELSE /\ pc' = [pc EXCEPT ![t] = "sresolving"]
                    /\ UNCHANGED <<outcome, refreshVars, searchVars,
                                   taskHist>>
    /\ UNCHANGED <<cacheVars, envVars, reply, globalHist, stepVars>>

\* wiki.py:44-46, 170-180  the reply to the url request arrives: the command
\* ends, with the embed or with the KeyError
RecvSearchUrls(t) ==
    /\ pc[t] = "sresolving"
    /\ Finish(t, "search:ended")
    /\ UNCHANGED <<cacheVars, envVars, reply, globalHist, stepVars>>

\* wiki.py:156-157, 43-44  the request in flight fails
SearchFail(t) ==
    /\ pc[t] \in {"searching", "sresolving"}
    /\ Finish(t, "search:ended")
    /\ UNCHANGED <<cacheVars, envVars, reply, globalHist, stepVars>>

\* the invocation is cancelled at the await it is suspended at
CancelSearch(t) ==
    /\ pc[t] \in {"searching", "sresolving"}
    /\ Finish(t, "search:ended")
    /\ UNCHANGED <<cacheVars, envVars, reply, globalHist, stepVars>>

\* both commands of the cog
NextAll ==
    \/ Next
    \/ \E t \in Tasks, q \in Queries : InvokeSearch(t, q)
    \/ \E t \in Tasks : RecvSearch(t)
    \/ \E t \in Tasks : RecvSearchUrls(t)
    \/ \E t \in Tasks : SearchFail(t)
    \/ \E t \in Tasks : CancelSearch(t)

SpecAll == Init /\ [][NextAll]_vars

(* ------------------------ the ranking step alone --------------------- *)

\* bounds of the ranking inputs
MaxChoices == 3
MaxLimit == 2

RankTitles == {tA, tB, tTEM, tCategoryA}
RankScores == {ScoreCutoff - 1, ScoreCutoff, 90}
RankCutoffs == {ScoreCutoff, 90}

\* sequences of distinct titles: the keys of a dict, in any insertion order
RankChoices ==
    UNION {{c \in [1..n -> RankTitles] :
                \A i, j \in 1..n : i # j => c[i] # c[j]} : n \in 0..MaxChoices}

InitRank ==
    /\ InitWiki
    /\ rank \in [pc : {"in"}, choices : RankChoices,
                 score : [RankTitles -> RankScores],
                 score_cutoff : RankCutoffs, limit : 0..MaxLimit,
                 out : {<<>>}]
    /\ snip = RankOff
    /\ reader = RankOff
    /\ fts = RankOff

\* wiki.py:118-124  the executor runs the ranking on its inputs
RankApply ==
    /\ rank.pc = "in"
    /\ rank' = [rank EXCEPT
                  !.pc = "out",
                  !.out = BestsBy(rank.score, rank.choices,
                                  rank.score_cutoff, rank.limit)]
    /\ UNCHANGED <<cacheVars, envVars, pc, outcome, reply, refreshVars,
                   searchVars, taskHist, globalHist, snip, reader, fts>>

NextRank == RankApply

SpecRank == InitRank /\ [][NextRank]_vars

(* ----------------------- one wikisearch on its own -------------------- *)

\* everything of the cog but the steps run on their own
wikiVars == <<cacheVars, envVars, pc, outcome, reply, refreshVars,
              searchVars, taskHist, globalHist>>

\* One invocation of wikisearch: the reply to its search request, and the
\* content of the wiki when its url request is answered.
InitSearch ==
    /\ InitWiki
    /\ rank = RankOff
    /\ snip = RankOff
    /\ reader = RankOff
    /\ fts \in [pc : {"call"},
                response : UNION {SearchResponses(v) : v \in Versions},
                url_ver : Versions,
                results : {<<>>}, sent : {<<>>},
                outcome : {"none"}, reply : {<<>>}]

\* the invocation ends
FtsFinish(how, text) ==
    fts' = [fts EXCEPT !.pc = "done", !.outcome = how, !.reply = text,
                       !.results = <<>>]

\* wiki.py:147-157  the search request goes out
FtsInvoke ==
    /\ fts.pc = "call"
    /\ fts' = [fts EXCEPT !.pc = "searching", !.sent = <<"search">>]
    /\ UNCHANGED <<wikiVars, rank, snip, reader>>

\* as FtsRecvSearch, but a reply with no hit is treated like any other
FtsRecvSearch_NoHitsCheck ==
    /\ fts.pc = "searching"
    /\ IF "error" \in DOMAIN fts.response
       THEN FtsFinish(SearchError(fts.response.error).outcome,
                      SearchError(fts.response.error).reply)
       ELSE fts' = [fts EXCEPT !.pc = "resolving",
                               !.results = fts.response.query.search,
                               !.sent = Append(@, "info")]
    /\ UNCHANGED <<wikiVars, rank, snip, reader>>

\* wiki.py:157-170, 37-43  the reply to the search request arrives: an error
\* or no hit ends the command, otherwise the url request goes out
FtsRecvSearch ==
    /\ fts.pc = "searching"
    /\ IF "error" \in DOMAIN fts.response
       THEN FtsFinish(SearchError(fts.response.error).outcome,
                      SearchError(fts.response.error).reply)
       ELSE IF fts.response.query.searchinfo.totalhits = 0
            THEN FtsFinish("no_matches", <<>>)
            ELSE fts' = [fts EXCEPT !.pc = "resolving",
                                    !.results = fts.response.query.search,
                                    !.sent = Append(@, "info")]
    /\ UNCHANGED <<wikiVars, rank, snip, reader>>

\* wiki.py:44-46, 170-180  the reply to the url request arrives
FtsRecvUrls ==
    /\ fts.pc = "resolving"
    /\ LET ids == SearchPageIds(fts.results)
           pages == InfoResponse(fts.url_ver, StrPageIds(ids))
       IN  IF \E i \in 1..Len(ids) : ToString(ids[i]) \notin DOMAIN pages
           THEN FtsFinish("resolve:KeyError", <<>>)
           ELSE FtsFinish("results", SearchReply(fts.results, Urls(pages, ids)))
    /\ UNCHANGED <<wikiVars, rank, snip, reader>>

\* wiki.py:156-157, 43-44  the request in flight fails
FtsFail ==
    /\ fts.pc \in {"searching", "resolving"}
    /\ FtsFinish(IF fts.pc = "searching" THEN "search:error"
                 ELSE "resolve:error", <<>>)
    /\ UNCHANGED <<wikiVars, rank, snip, reader>>

\* the invocation is cancelled at the await it is suspended at
FtsCancel ==
    /\ fts.pc \in {"searching", "resolving"}
    /\ FtsFinish(IF fts.pc = "searching" THEN "search:cancelled"
                 ELSE "resolve:cancelled", <<>>)
    /\ UNCHANGED <<wikiVars, rank, snip, reader>>

NextSearch ==
    \/ FtsInvoke
    \/ FtsRecvSearch
    \/ FtsRecvUrls
    \/ FtsFail
    \/ FtsCancel

SpecSearch == InitSearch /\ [][NextSearch]_vars

(* ---------------------- the snippet markup on its own ----------------- *)

\* pieces a snippet is made of
MaxPieces == 6

\* A snippet is a run of pieces: the two tags the search engine puts around
\* a match, a letter, an asterisk.
Pieces == {"open", "close", "x", "star"}

PieceText(piece) ==
    CASE piece = "open"  -> OpenTag
      [] piece = "close" -> CloseTag
      [] piece = "x"     -> <<120>>
      [] OTHER           -> <<42>>

\* match['snippet'] of a run of pieces
SnippetText(pieces) ==
    Concat([i \in 1..Len(pieces) |-> PieceText(pieces[i])])

InitSnip ==
    /\ InitWiki
    /\ rank = RankOff
    /\ reader = RankOff
    /\ fts = RankOff
    /\ snip \in [pc : {"in"},
                 pieces : UNION {[1..n -> Pieces] : n \in 0..MaxPieces},
                 out : {<<>>}]

\* wiki.py:174-177  the snippet is marked up for the reply
SnipApply ==
    /\ snip.pc = "in"
    /\ snip' = [snip EXCEPT !.pc = "out",
                            !.out = Markup(SnippetText(snip.pieces))]
    /\ UNCHANGED <<wikiVars, rank, reader, fts>>

NextSnip == SnipApply

SpecSnip == InitSnip /\ [][NextSnip]_vars

(* ----------------------- one read_titles on its own ------------------- *)

\* The pages a listing is drawn from, in the order of their sort keys.
ReadPool == <<Page(tA, tA, 1), Page(tB, tB, 2), Page(tTEM, tTEM, 3),
              Page(TEMP, TEMP, 8), Page(tTEMP1, tTEMP1, 9)>>

\* the finite listings: the pages of the pool at the positions of keep
ReadListing(keep) == SelectSeq(ReadPool, LAMBDA p : p.pageid \in keep)

ReadListings ==
    {ReadListing(keep) :
        keep \in SUBSET {ReadPool[i].pageid : i \in 1..Len(ReadPool)}}

\* One call of read_titles on a namespace whose listing does not change.
\* asked and seen are its history: the apfrom of the requests it sent and
\* the responses it got.
InitRead ==
    /\ InitWiki
    /\ rank = RankOff
    /\ snip = RankOff
    /\ fts = RankOff
    /\ reader \in [pc : {"call"}, listing : ReadListings,
                   next_query_start : {EmptyStr}, fresh_titles : {<<>>},
                   asked : {<<>>}, seen : {<<>>}]

\* wiki.py:53-66  the first request goes out, from the empty start
ReadStart ==
    /\ reader.pc = "call"
    /\ reader' = [reader EXCEPT !.pc = "await",
                                !.fresh_titles = <<>>,
                                !.next_query_start = EmptyStr,
                                !.asked = <<EmptyStr>>]
    /\ UNCHANGED <<wikiVars, rank, snip, fts>>

\* as ReadRecv, but the first response ends the loop whatever it carries
ReadRecv_StopEarly ==
    /\ reader.pc = "await"
    /\ LET response == PageFrom(reader.listing, reader.next_query_start)
       IN  reader' = [reader EXCEPT
                        !.pc = "returned",
                        !.fresh_titles = AddItems(@, response.allpages),
                        !.seen = Append(@, response)]
    /\ UNCHANGED <<wikiVars, rank, snip, fts>>

\* wiki.py:58-78  a response arrives: its items are added and, with a
\* continuation, the next request goes out from it; without one the
\* mapping is returned
ReadRecv ==
    /\ reader.pc = "await"
    /\ LET response == PageFrom(reader.listing, reader.next_query_start)
       IN  reader' = [reader EXCEPT
                        !.fresh_titles = AddItems(@, response.allpages),
                        !.seen = Append(@, response),
                        !.pc = IF response.hasContinue
                               THEN "await" ELSE "returned",
                        !.next_query_start =
                            IF response.hasContinue
                            THEN response.apcontinue ELSE @,
                        !.asked = IF response.hasContinue
                                  THEN Append(@, response.apcontinue) ELSE @]
    /\ UNCHANGED <<wikiVars, rank, snip, fts>>

NextRead ==
    \/ ReadStart
    \/ ReadRecv

\* The event loop resumes the coroutine when the response it awaits has
\* arrived, and the remote store answers every request.
SpecRead == InitRead /\ [][NextRead]_vars /\ WF_vars(NextRead)

(* ------------------------------- claims ------------------------------- *)

\* C1: whatever the interleaving of searches and refreshes, self.all_titles
\* is the empty mapping it started as until a refresh completes, and from
\* then on it is the whole mapping one complete run of refresh_titles_cache
\* built over all the namespaces.
C1_IndexIsEmptyOrOneCompleteRefresh ==
    all_titles = IF populated THEN last_built ELSE <<>>

\* a published index is served while another refresh holds a mapping of
\* only part of its namespaces
C1_Witness ==
    /\ populated
    /\ all_titles # <<>>
    /\ \E t \in Tasks :
          /\ pc[t] = "fetching"
          /\ nsIdx[t] = Len(Namespaces)
          /\ new_titles[t] # <<>>
          /\ new_titles[t] # all_titles

\* C2: a refresh whose listing request fails leaves self.all_titles and
\* self.all_titles_stamp exactly as they were when that refresh started.
C2_FailedRefreshLeavesIndexAsAtItsStart ==
    [][\A t \in Tasks :
          (pc[t] = "fetching" /\ outcome'[t] = "refresh:error")
              => /\ all_titles' = start_titles[t]
                 /\ all_titles_stamp' = start_stamp[t]]_vars

\* C3: a command started after a refresh has completed, less than TTL
\* after the timestamp of the last completed refresh, dispatches no listing
\* request and leaves index and timestamp alone.
C3_SecondRefreshWithinTtlFetchesNothing ==
    [][\A t \in Tasks :
          (pc[t] = "idle" /\ pc'[t] # "idle" /\ populated
                /\ now - all_titles_stamp < TTL)
              => /\ requests'[t] = 0
                 /\ pc'[t] = "ranking"
                 /\ UNCHANGED cacheVars]_vars

\* C4: at most one invocation is fetching the listings at any time.
C4_AtMostOneRefreshFetches ==
    Cardinality({t \in Tasks : pc[t] = "fetching"}) <= 1

\* The index holds exactly the listed titles that do not start with TEMP,
\* each once, with the page id the listing gave it.
IndexOfListed(index, items) ==
    /\ {index[k][1] : k \in 1..Len(index)}
          = {items[i].title : i \in {j \in 1..Len(items) :
                                        ~StartsWith(items[j].title, TEMP)}}
    /\ \A k, l \in 1..Len(index) : index[k][1] = index[l][1] => k = l
    /\ \A k \in 1..Len(index) :
          \E i \in 1..Len(items) :
             /\ items[i].title = index[k][1]
             /\ items[i].pageid = index[k][2]
             /\ \A j \in (i + 1)..Len(items) : items[j].title # index[k][1]

\* C5: once a refresh has completed, self.all_titles holds exactly the
\* titles the listings of all namespaces and batches returned to the last
\* completed refresh, without those starting with TEMP, each once and with
\* the page id listed for it.
C5_IndexIsUnionOfListedTitles ==
    populated => IndexOfListed(all_titles, last_listed)

\* a refresh over several batches and both namespaces, with a temporary
\* table listed, has published
C5_Witness ==
    /\ populated
    /\ Len(last_listed) > PageSize + 1
    /\ \E i \in 1..Len(last_listed) : StartsWith(last_listed[i].title, TEMP)
    /\ \E i \in 1..Len(last_listed) : last_listed[i].title = tCategoryA
    /\ Len(all_titles) = Len(last_listed) - 1

\* C6: the ids a search sends for resolution are those of its results in
\* the index it ranked, and the lookup never fails.
C6_IdsComeFromTheRankedSnapshot ==
    \A t \in Tasks :
       /\ outcome[t] # "lookup:KeyError"
       /\ pc[t] = "resolving" =>
             \A i \in 1..Len(results[t]) :
                /\ DictHas(ranked[t], results[t][i][1])
                /\ pageids[t][i] = DictGet(ranked[t], results[t][i][1])

\* C7: a refresh cancelled while it awaits a listing leaves
\* self.all_titles and self.all_titles_stamp exactly as they were when that
\* refresh started.
C7_CancelledRefreshLeavesIndexAsAtItsStart ==
    [][\A t \in Tasks :
          (pc[t] = "fetching" /\ outcome'[t] = "refresh:cancelled")
              => /\ all_titles' = start_titles[t]
                 /\ all_titles_stamp' = start_stamp[t]]_vars

\* C8: the ranking returns at most limit entries, each a candidate with a
\* score of at least the cutoff, in non-increasing order of score.
C8_RankingIsBoundedFilteredSorted ==
    rank.pc = "out" =>
       /\ Len(rank.out) <= rank.limit
       /\ \A i \in 1..Len(rank.out) :
             /\ rank.out[i][2] >= rank.score_cutoff
             /\ \E j \in 1..Len(rank.choices) : rank.choices[j] = rank.out[i][1]
       /\ \A i, j \in 1..Len(rank.out) :
             i < j => rank.out[i][2] >= rank.out[j][2]

\* the limit cut the ranking short, a candidate was below the cutoff, and
\* the scores returned differ
C8_Witness ==
    /\ rank.pc = "out"
    /\ rank.limit = MaxLimit
    /\ Len(rank.out) = rank.limit
    /\ Len(rank.choices) > rank.limit
    /\ \A i \in 1..Len(rank.choices) :
          (i < Len(rank.choices))
              = (rank.score[rank.choices[i]] >= rank.score_cutoff)
    /\ rank.out[1][2] > rank.out[Len(rank.out)][2]
    /\ rank.out[1][1] # rank.choices[1]

\* C9: results with the same score are in lexicographic order of title.
C9_TiesInLexicographicOrder ==
    \A t \in Tasks :
       \A i \in 1..(Len(results[t]) - 1) :
          results[t][i][2] = results[t][i + 1][2]
              => StrLess(results[t][i][1], results[t][i + 1][1])

\* C10: a search that ends with results sent one url request, for all its
\* ids, and its reply holds one (title, url) pair per result, in the order
\* of the results, the url being the one the response gives for the id the
\* result's title was mapped to.
C10_ReplyPairsResultsWithTheirUrls ==
    [][\A t \in Tasks :
          (pc[t] = "resolving" /\ outcome'[t] = "results")
              => LET k == Len(results[t])
                     pages == InfoResponse(wikiVer, url_query[t])
                 IN  /\ k >= 1
                     /\ url_requests[t] = 1
                     /\ Len(url_query[t]) = k
                     /\ Len(reply'[t]) = k
                     /\ \A i \in 1..k :
                           /\ url_query[t][i] = ToString(pageids[t][i])
                           /\ reply'[t][i][1] = results[t][i][1]
                           /\ reply'[t][i][2]
                                 = pages[ToString(pageids[t][i])].fullurl]_vars

\* a search has replied with several pairs whose ids were not in ascending
\* order
C10_Witness ==
    \E t \in Tasks :
       /\ outcome[t] = "results"
       /\ Len(reply[t]) = 3
       /\ reply[t][1][1] = tTEM
       /\ reply[t][3][1] = tA

\* C11: when the ranking of a title search comes back with no entry, the
\* command ends there with the "no matches" message: not with an error, not
\* with a reply of results, and without sending a url request.
C11_EmptyRankingEndsInNoMatches ==
    [][\A t \in Tasks :
          (/\ pc[t] = "ranking"
           /\ pc'[t] # "ranking"
           /\ outcome'[t] # "rank:cancelled"
           /\ Len(extractBests(query[t], DictKeys(ranked[t]),
                               ScoreCutoff, ResultLimit)) = 0)
              => /\ pc'[t] = "done"
                 /\ outcome'[t] = "no_matches"
                 /\ reply'[t] = <<>>
                 /\ url_requests'[t] = 0
                 /\ url_query'[t] = <<>>]_vars

\* a search over a published index has ended with "no matches"
C11_Witness ==
    /\ populated
    /\ \E t \in Tasks : pc[t] = "done" /\ outcome[t] = "no_matches"

\* C12: a wikisearch whose search reply reports totalhits = 0 ends with the
\* same "no matches" message the title search sends, having sent the search
\* request alone and no reply of results, not even an empty one; a reply of
\* results is sent only for a search reply with totalhits > 0.
C12_NoHitsEndsInNoMatches ==
    LET answered == /\ fts.pc = "done"
                    /\ fts.outcome \notin {"search:error", "search:cancelled"}
                    /\ "query" \in DOMAIN fts.response
        totalhits == fts.response.query.searchinfo.totalhits
    IN  /\ (answered /\ totalhits = 0)
              => /\ fts.outcome = "no_matches"
                 /\ fts.reply = <<>>
                 /\ fts.sent = <<"search">>
        /\ fts.outcome = "results"
              => /\ "query" \in DOMAIN fts.response
                 /\ totalhits > 0
                 /\ Len(fts.reply) > 0

\* a search reply with no hit has been answered with "no matches"
C12_Witness ==
    /\ fts.pc = "done"
    /\ "query" \in DOMAIN fts.response
    /\ fts.response.query.searchinfo.totalhits = 0
    /\ fts.outcome = "no_matches"

\* C13: a wikisearch whose search reply holds an error object ends with the
\* search error message carrying the info string as it came when the object
\* is well formed, and with a protocol error when info is missing or is not
\* a string; it never ends with results or "no matches", and it sends no
\* other request.
C13_ErrorObjectEndsInSearchOrProtocolError ==
    (/\ fts.pc = "done"
     /\ fts.outcome \notin {"search:error", "search:cancelled"}
     /\ "error" \in DOMAIN fts.response)
        => LET error == fts.response.error
               wellFormed == /\ "info" \in DOMAIN error
                             /\ error.info.type = "str"
           IN  /\ fts.sent = <<"search">>
               /\ IF wellFormed
                  THEN /\ fts.outcome = "search_error"
                       /\ fts.reply = error.info.v
                  ELSE fts.outcome \in {"search_error:no_message",
                                        "search:KeyError", "search:TypeError"}

\* C14: when the response to a url request has no entry (or no url) for one
\* of the ids asked, pageids_to_urls raises and the command sends no reply
\* of results; a reply of results holds a url of the response for every
\* result, never fewer urls than ids and never an empty url.
C14_MissingPageFailsTheResolution ==
    [][\A t \in Tasks :
          (/\ pc[t] = "resolving"
           /\ pc'[t] # "resolving"
           /\ outcome'[t] \notin {"resolve:error", "resolve:cancelled"})
              => LET pages == InfoResponse(wikiVer, url_query[t])
                     missing == \E i \in 1..Len(pageids[t]) :
                                   ToString(pageids[t][i]) \notin DOMAIN pages
                 IN  IF missing
                     THEN /\ outcome'[t] = "resolve:KeyError"
                          /\ reply'[t] = <<>>
                     ELSE /\ outcome'[t] = "results"
                          /\ Len(reply'[t]) = Len(pageids[t])
                          /\ \A i \in 1..Len(pageids[t]) :
                                reply'[t][i][2] # <<>>]_vars

\* a search whose matches were deleted or recreated before the url request
\* was answered has ended with the KeyError
C14_Witness ==
    \E t \in Tasks : pc[t] = "done" /\ outcome[t] = "resolve:KeyError"

\* the snippet with each tag piece turned into '**' and every other piece
\* left as it is
MarkedUp(pieces) ==
    Concat([i \in 1..Len(pieces) |->
               IF pieces[i] \in {"open", "close"} THEN Bold
               ELSE PieceText(pieces[i])])

\* the tags of the snippet, in order
TagsOf(pieces) == SelectSeq(pieces, LAMBDA x : x \in {"open", "close"})

\* the highlighted matches are well nested: each opening tag is closed
\* before the next one opens
WellNested(pieces) ==
    LET tags == TagsOf(pieces)
    IN  /\ Len(tags) % 2 = 0
        /\ \A i \in 1..Len(tags) :
              tags[i] = IF i % 2 = 1 THEN "open" ELSE "close"

RECURSIVE Count(_, _)
\* str.count(sub): the occurrences of sub, from the left, without overlap
Count(s, sub) ==
    IF Len(s) < Len(sub) THEN 0
    ELSE IF SubSeq(s, 1, Len(sub)) = sub
         THEN 1 + Count(SubSeq(s, Len(sub) + 1, Len(s)), sub)
         ELSE Count(Tail(s), sub)

ItemsSeen(seen) == Concat([i \in 1..Len(seen) |-> seen[i].allpages])

\* the requests and responses of a read_titles call so far
ReadInOrder ==
    LET asked == reader.asked
        seen == reader.seen
    IN  /\ reader.pc = "call" => asked = <<>> /\ seen = <<>>
        /\ reader.pc # "call" => asked[1] = EmptyStr
        /\ \A i \in 2..Len(asked) :
              /\ seen[i - 1].hasContinue
              /\ asked[i] = seen[i - 1].apcontinue
        /\ reader.pc = "await"
              => /\ Len(asked) = Len(seen) + 1
                 /\ \A i \in 1..Len(seen) : seen[i].hasContinue
        /\ reader.pc = "returned"
              => /\ Len(asked) = Len(seen)
                 /\ \A i \in 1..Len(seen) :
                       seen[i].hasContinue <=> i < Len(seen)
                 /\ ItemsSeen(seen)
                       = [i \in 1..Len(reader.listing) |->
                             [title |-> reader.listing[i].title,
                              pageid |-> reader.listing[i].pageid]]

\* C16: read_titles sends its first request from the empty start, then one
\* request per continuation it is given, from that continuation, and
\* returns at the first response without one; on a finite listing whose
\* continuations advance it does return, having got every page of the
\* listing exactly once.
C16_ReadTitlesFollowsContinuationsAndReturns ==
    /\ []ReadInOrder
    /\ <>(reader.pc = "returned")

\* a listing of three batches has been read to its end
C16_Witness ==
    /\ reader.pc = "returned"
    /\ Len(reader.asked) = 3
    /\ reader.asked[2] # reader.asked[3]

\* C17: whatever refreshes have run, no key of self.all_titles starts with
\* 'TEMP', in whichever namespace and batch the title was listed, and every
\* title listed to the last completed refresh that does not start with
\* 'TEMP' is a key of it.
C17_NoTempTitleInTheIndex ==
    /\ \A k \in 1..Len(all_titles) : ~StartsWith(all_titles[k][1], TEMP)
    /\ populated
          => \A i \in 1..Len(last_listed) :
                ~StartsWith(last_listed[i].title, TEMP)
                    => DictHas(all_titles, last_listed[i].title)

\* the index was published from listings that held the title 'TEMP' itself
\* and the title 'TEM', which is kept
C17_Witness ==
    /\ populated
    /\ \E i \in 1..Len(last_listed) : last_listed[i].title = TEMP
    /\ DictHas(all_titles, tTEM)
    /\ ~DictHas(all_titles, TEMP)

\* C18: a command that finds the cache empty, or the titles TTL seconds old
\* or older (exactly TTL included), does not go on without fetching: its
\* refresh sends the listing request of the first namespace, goes through
\* the namespaces in order, and publishes only once the last one is read:
\* the mapping built from all of them, stamped with the instant of the
\* publication.
C18_StaleOrEmptyCacheIsRefetched ==
    [][\A t \in Tasks :
          /\ (/\ pc[t] = "idle"
              /\ pc'[t] # "idle"
              /\ (all_titles = <<>> \/ now - all_titles_stamp >= TTL))
                => /\ pc'[t] = "fetching"
                   /\ nsIdx'[t] = 1
                   /\ next_query_start'[t] = EmptyStr
                   /\ requests'[t] = 1
                   /\ UNCHANGED cacheVars
          /\ (/\ pc[t] = "fetching"
              /\ pc'[t] = "fetching"
              /\ listed'[t] # listed[t] \/ requests'[t] # requests[t])
                => /\ nsIdx'[t] \in {nsIdx[t], nsIdx[t] + 1}
                   /\ requests'[t] = requests[t] + 1
                   /\ UNCHANGED cacheVars
          /\ (pc[t] = "fetching" /\ pc'[t] = "ranking")
                => LET response == ListResponse(wikiVer, Namespaces[nsIdx[t]],
                                                next_query_start[t])
                   IN  /\ nsIdx[t] = Len(Namespaces)
                       /\ requests[t] >= Len(Namespaces)
                       /\ ~response.hasContinue
                       /\ all_titles'
                             = DictUpdate(new_titles[t],
                                          AddItems(fresh_titles[t],
                                                   response.allpages))
                       /\ all_titles_stamp' = now']_vars

\* a refresh started on titles exactly TTL seconds old is reading the last
\* namespace
C18_Witness ==
    \E t \in Tasks :
       /\ pc[t] = "fetching"
       /\ start_titles[t] # <<>>
       /\ now - start_stamp[t] = TTL
       /\ nsIdx[t] = Len(Namespaces)

\* the step of invocation t that publishes: the last listing response of
\* its refresh arrives, and the mapping it built and the clock of that
\* step are stored together
PublishStep(t) ==
    /\ pc[t] = "fetching"
    /\ pc'[t] = "ranking"
    /\ nsIdx[t] = Len(Namespaces)
    /\ all_titles' = ranked'[t]
    /\ all_titles' = last_built'
    /\ all_titles_stamp' = now

\* C19: whatever the interleaving of wiki and wikisearch invocations, of
\* failures and of cancellations, self.all_titles_stamp never decreases, and
\* every step either is the publishing step of a refresh that read all its
\* namespaces, which stores the new index and its timestamp together, or
\* leaves both the index and the timestamp as they are.
C19_CacheChangesOnlyByPublishing ==
    [][/\ all_titles_stamp' >= all_titles_stamp
       /\ (\E t \in Tasks : PublishStep(t)) \/ UNCHANGED cacheVars
       /\ \A t \in Tasks :
             (\/ pc[t] \in {"idle", "searching", "sresolving", "ranking",
                            "resolving", "done"}
              \/ pc'[t] = "done")
                 => (pc'[t] # pc[t] => UNCHANGED cacheVars)]_vars

\* a wikisearch awaits its urls while the refresh of another invocation has
\* published, with a timestamp past the initial one
C19_Witness ==
    /\ populated
    /\ all_titles_stamp > 0
    /\ \E t \in Tasks : pc[t] = "sresolving"
    /\ \E t \in Tasks : pc[t] \in {"ranking", "resolving"}

\* the index a refresh builds when all its requests are answered from the
\* content ver of the wiki
BuiltFrom(ver) ==
    LET all(listing) == [i \in 1..Len(listing) |->
                            [title |-> listing[i].title,
                             pageid |-> listing[i].pageid]]
    IN  DictUpdate(AddItems(<<>>, all(WikiHistory[ver].ns0)),
                   AddItems(<<>>, all(WikiHistory[ver].ns14)))

\* C20: when refreshes overlap while the wiki changes, the published index
\* never goes back to older content of the wiki: an index built from one
\* content is never replaced by the index built from an earlier content.
C20_IndexNeverGoesBackToOlderContent ==
    [][\A v, w \in Versions :
          (/\ populated
           /\ all_titles = BuiltFrom(v)
           /\ all_titles' = BuiltFrom(w)
           /\ all_titles' # all_titles)
              => w >= v]_vars

====
